---- MODULE Spec2Model ----
(***************************************************************************)
(* State-machine model of the outreach ledger and the visited-entity cache *)
(* of abdelrhman21793/send_emails_to_company.                               *)
(*                                                                         *)
(*   - run_system.py     CVAutomationSystem: the contact file               *)
(*                       (companies_emails.csv), the outcome file           *)
(*                       (sent_emails.csv), the scrape job and the send job *)
(*   - clean_emails.py, fix_malformed_emails.py: the cleanup tools that     *)
(*                       rewrite the contact file emails.csv                *)
(*   - visited_links_manager.py  VisitedLinksManager: three categories of   *)
(*                       visited entries with lazy and eager expiry         *)
(*                                                                         *)
(* Text is modelled as a sequence of one-character strings, so that the     *)
(* substring, suffix and pattern tests of the code are computed, not        *)
(* assumed.                                                                 *)
(***************************************************************************)
EXTENDS Integers, Sequences, FiniteSets, TLC

VARIABLES
    program,       \* which program of the repository, or which client of the
                   \* manager, the behaviour follows
    csv_file,      \* companies_emails.csv: the rows, in file order
    sent_file,     \* sent_emails.csv: the outcome rows, in file order
    pc,            \* position of the process: "idle", "send", "mark"
    job_limit,     \* send_emails_job: the limit it passed to get_unsent_emails
    batch,         \* send_emails_job: the list get_unsent_emails returned
    idx,           \* send_emails_job: position of the loop in batch
    send_ok,       \* send_emails_job: what send_email returned for batch[idx]
    attempts,      \* history: send_email calls per address: 0, 1, 2 (= two or more)
    failed,        \* history: the addresses for which send_email has returned False
    offered,       \* history: per row position, the get_unsent_emails calls that
                   \*          returned it: 0, 1, 2 (= two or more)
    emails_csv,    \* emails.csv: the rows the cleanup tools read and rewrite
    now,           \* the clock (datetime.now()), in days
    expire_days,   \* VisitedLinksManager.expire_days
    visited,       \* visited_links / visited_companies / visited_searches, by category
    marked_at,     \* history: per category and key, the day of the last mark call
    files,         \* the three backing json files, by category
    finder,        \* DynamicCompanyFinder: the visited links and companies that
                   \*   manage_visited_data.py merges a backup into
    op             \* the last operation and what it returned to its caller

vars == <<program, csv_file, sent_file, pc, job_limit, batch, idx, send_ok, attempts, failed,
          offered, emails_csv, now, expire_days, visited, marked_at, files, finder, op>>

ledgerVars == <<csv_file, sent_file, pc, job_limit, batch, idx, send_ok>>

historyVars == <<attempts, failed, offered>>

cacheVars == <<now, expire_days, visited, marked_at>>

(***************************************************************************)
(* Bounds of the model.                                                    *)
(***************************************************************************)
MaxRows == 3        \* rows the contact file may hold
MaxTime == 2        \* days the clock may advance
MaxVisits == 2      \* visit_count a key may reach
MaxExpireDays == 1  \* largest expire_days a manager is constructed with
MaxKeyLen == 4      \* characters of a text given to _normalize_url

(***************************************************************************)
(* Text helpers (Python str methods on sequences of characters).           *)
(***************************************************************************)
LowerLetters == {"a", "b", "c", "d", "e", "f", "g", "h", "i", "j", "k", "l", "m",
                 "n", "o", "p", "q", "r", "s", "t", "u", "v", "w", "x", "y", "z"}

UpperLetters == {"A", "B", "C", "D", "E", "F", "G", "H", "I", "J", "K", "L", "M",
                 "N", "O", "P", "Q", "R", "S", "T", "U", "V", "W", "X", "Y", "Z"}

Digits == {"0", "1", "2", "3", "4", "5", "6", "7", "8", "9"}

UpperToLower == [c \in UpperLetters |->
    CASE c = "A" -> "a" [] c = "B" -> "b" [] c = "C" -> "c" [] c = "D" -> "d"
      [] c = "E" -> "e" [] c = "F" -> "f" [] c = "G" -> "g" [] c = "H" -> "h"
      [] c = "I" -> "i" [] c = "J" -> "j" [] c = "K" -> "k" [] c = "L" -> "l"
      [] c = "M" -> "m" [] c = "N" -> "n" [] c = "O" -> "o" [] c = "P" -> "p"
      [] c = "Q" -> "q" [] c = "R" -> "r" [] c = "S" -> "s" [] c = "T" -> "t"
      [] c = "U" -> "u" [] c = "V" -> "v" [] c = "W" -> "w" [] c = "X" -> "x"
      [] c = "Y" -> "y" [] c = "Z" -> "z"]

\* str.lower()
StrLower(s) == [i \in 1..Len(s) |-> IF s[i] \in UpperLetters THEN UpperToLower[s[i]] ELSE s[i]]

\* pat in s
StrContains(s, pat) ==
    \E i \in 1..(Len(s) - Len(pat) + 1) : SubSeq(s, i, i + Len(pat) - 1) = pat

\* s.endswith(suffix)
StrEndsWith(s, suffix) ==
    /\ Len(suffix) <= Len(s)
    /\ SubSeq(s, Len(s) - Len(suffix) + 1, Len(s)) = suffix

\* The elements of a sequence, as a set.
Range(s) == {s[i] : i \in 1..Len(s)}

\* x in list
ListContains(list, x) == \E i \in 1..Len(list) : list[i] = x

\* s.split('@')[1]: the text between the first and the second '@' (the rest when
\* there is no second one). Used only where '@' in s has been tested.
SplitAt1(s) ==
    LET first == CHOOSE i \in 1..Len(s) : s[i] = "@" /\ \A j \in 1..(i - 1) : s[j] # "@"
        rest == SubSeq(s, first + 1, Len(s))
    IN  IF \E i \in 1..Len(rest) : rest[i] = "@"
        THEN SubSeq(rest, 1,
                 (CHOOSE i \in 1..Len(rest) :
                      rest[i] = "@" /\ \A j \in 1..(i - 1) : rest[j] # "@") - 1)
        ELSE rest

(***************************************************************************)
(* The address pattern of run_system.py:98 and clean_emails.py:23:         *)
(*   ^[a-zA-Z0-9._%+-]+@[a-zA-Z0-9.-]+\.[a-zA-Z]{2,}$                      *)
(***************************************************************************)
LocalChars == LowerLetters \cup UpperLetters \cup Digits \cup {".", "_", "%", "+", "-"}

DomainChars == LowerLetters \cup UpperLetters \cup Digits \cup {".", "-"}

AlphaChars == LowerLetters \cup UpperLetters

email_regex(s) ==
    \E at \in 2..Len(s) : \E dot \in (at + 2)..(Len(s) - 2) :
        /\ s[at] = "@"
        /\ s[dot] = "."
        /\ \A i \in 1..(at - 1) : s[i] \in LocalChars
        /\ \A i \in (at + 1)..(dot - 1) : s[i] \in DomainChars
        /\ \A i \in (dot + 1)..Len(s) : s[i] \in AlphaChars

(***************************************************************************)
(* run_system.py: CVAutomationSystem.validate_email                        *)
(***************************************************************************)
rejected_patterns == {
    <<"n", "o", "r", "e", "p", "l", "y">>,
    <<"n", "o", "-", "r", "e", "p", "l", "y">>,
    <<"d", "o", "n", "o", "t", "r", "e", "p", "l", "y">>,
    <<"d", "o", "-", "n", "o", "t", "-", "r", "e", "p", "l", "y">>,
    <<"t", "e", "s", "t">>,
    <<"e", "x", "a", "m", "p", "l", "e">>,
    <<"l", "o", "c", "a", "l", "h", "o", "s", "t">>,
    <<"a", "d", "m", "i", "n", "@">>,
    <<".", "c", "o", "m", "p">>,
    <<".", "c", "o", "m", "c", "a", "l", "l">>,
    <<".", "c", "o", ".", "u", "k", ".">>,
    <<".", "s", "a", ".">>,
    <<".", "a", "e", ".">> }

validate_email(email) ==
    IF email = <<>> \/ ~StrContains(email, <<"@">>) THEN FALSE
    ELSE IF \E p \in rejected_patterns : StrContains(StrLower(email), p) THEN FALSE
    ELSE email_regex(email)

(***************************************************************************)
(* Addresses and companies the discovery step may hand to the ledger.      *)
(***************************************************************************)
A_ab == <<"a", "@", "b", ".", "c", "o", "m">>

A_info_sa == <<"i", "n", "f", "o", "@", "c", "o", "m", "p", "a", "n", "y", ".", "s", "a">>

A_noreply == <<"n", "o", "r", "e", "p", "l", "y", "@", "c", "o", "m", "p", "a", "n", "y",
               ".", "c", "o", "m">>

CandidateEmails == {A_ab, A_info_sa, A_noreply}

\* search_companies returns dicts with 'name', 'email' and 'url'; the url is copied
\* into the row and never read again.
CandidateCompanies ==
    { [name |-> "Acme", email |-> A_ab],
      [name |-> "Company", email |-> A_info_sa],
      [name |-> "Company", email |-> A_noreply] }

SeqsUpTo(S, n) == UNION {[1..k -> S] : k \in 1..n}

Min(a, b) == IF a <= b THEN a ELSE b

\* df['email'].tolist()
EmailsOf(rows) == [i \in 1..Len(rows) |-> rows[i].email]

(***************************************************************************)
(* run_system.py: the contact file and the outcome file.                   *)
(***************************************************************************)
\* save_companies_to_csv: the rows appended for `companies`, given the rows `df`
\* read from the file. The membership test reads df, which the loop never updates.
new_data(df, companies) ==
    LET keep(c) == ~ListContains(EmailsOf(df), c.email)
        kept == SelectSeq(companies, keep)
    IN  [i \in 1..Len(kept) |-> [company_name |-> kept[i].name, email |-> kept[i].email]]

\* DataFrame.head(n) for n >= 0
Head_n(rows, n) == SubSeq(rows, 1, Min(n, Len(rows)))

\* A faulty get_unsent_emails that forgets the outcome file: the first `limit`
\* rows, sent or not.
unsent_positions_unfiltered(companies_df, sent_df, limit) ==
    Head_n([i \in 1..Len(companies_df) |-> i], limit)

\* get_unsent_emails, by position: the positions of the rows whose email is not
\* in the outcome file, the first `limit` of them in file order.
unsent_positions(companies_df, sent_df, limit) ==
    LET unsent(i) == ~ListContains(EmailsOf(sent_df), companies_df[i].email)
        positions == [i \in 1..Len(companies_df) |-> i]
    IN  Head_n(SelectSeq(positions, unsent), limit)

\* get_unsent_emails: those rows, as the list of records the caller gets.
get_unsent_emails(companies_df, sent_df, limit) ==
    LET at == unsent_positions(companies_df, sent_df, limit)
    IN  [k \in 1..Len(at) |-> companies_df[at[k]]]

\* A faulty mark_email_as_sent that writes the new row without the rows read.
mark_email_overwrite(sent_df, email, company_name, status) ==
    <<[email |-> email, company_name |-> company_name, status |-> status]>>

\* mark_email_as_sent: one row appended, whatever the file already holds.
mark_email_as_sent(sent_df, email, company_name, status) ==
    Append(sent_df, [email |-> email, company_name |-> company_name, status |-> status])

\* The attempt counter of the history: 0, 1, and 2 for every count above 1.
Bump(n) == IF n = 0 THEN 1 ELSE 2

(***************************************************************************)
(* clean_emails.py: is_valid_email, fix_common_email_issues,               *)
(* clean_emails_csv.                                                       *)
(***************************************************************************)
\* The suffixes is_valid_email searches for at the end of the domain.
malformed_patterns == {
    <<".", "c", "o", "m", "p">>,
    <<".", "c", "o", "m", "c", "a", "l", "l">>,
    <<".", "c", "o", "m", "f", "u", "l", "l">>,
    <<".", "c", "o", "m", "g", "i", "z", "a">>,
    <<".", "c", "o", "m", ".", "s", "a", ".", "s", "a">>,
    <<".", "c", "o", "m", ".", "a", "e", ".", "a", "e">> }

is_valid_email(email) ==
    IF email = <<>> \/ ~StrContains(email, <<"@">>) THEN FALSE
    ELSE IF ~email_regex(email) THEN FALSE
    ELSE LET domain == SplitAt1(email)
         IN  IF \E p \in malformed_patterns : StrEndsWith(domain, p) THEN FALSE
             ELSE IF Len(domain) < 4 THEN FALSE
             ELSE TRUE

\* The fixes of fix_common_email_issues, in the order the loop visits them.
fixes == <<
    << <<".", "c", "o", "m", "p">>, <<".", "c", "o", "m">> >>,
    << <<".", "c", "o", "m", "c", "a", "l", "l">>, <<".", "c", "o", "m">> >>,
    << <<".", "c", "o", "m", "f", "u", "l", "l">>, <<".", "c", "o", "m">> >>,
    << <<".", "c", "o", "m", "g", "i", "z", "a">>, <<".", "c", "o", "m">> >>,
    << <<".", "c", "o", "m", ".", "s", "a", ".", "s", "a">>, <<".", "c", "o", "m", ".", "s", "a">> >>,
    << <<".", "c", "o", "m", ".", "a", "e", ".", "a", "e">>, <<".", "c", "o", "m", ".", "a", "e">> >> >>

Whitespace == {" ", "\t", "\n", "\r", "\f"}

\* str.strip()
RECURSIVE StrStrip(_)
StrStrip(s) ==
    IF s = <<>> THEN s
    ELSE IF Head(s) \in Whitespace THEN StrStrip(Tail(s))
    ELSE IF s[Len(s)] \in Whitespace THEN StrStrip(SubSeq(s, 1, Len(s) - 1))
    ELSE s

\* str.replace(old, new): every occurrence, left to right, not overlapping.
RECURSIVE StrReplace(_, _, _)
StrReplace(s, old, new) ==
    IF Len(s) < Len(old) THEN s
    ELSE IF SubSeq(s, 1, Len(old)) = old
         THEN new \o StrReplace(SubSeq(s, Len(old) + 1, Len(s)), old, new)
         ELSE <<Head(s)>> \o StrReplace(Tail(s), old, new)

\* The loop of fix_common_email_issues from fix number k on.
RECURSIVE apply_fixes(_, _)
apply_fixes(email, k) ==
    IF k > Len(fixes) THEN email
    ELSE apply_fixes(IF StrEndsWith(email, fixes[k][1])
                     THEN StrReplace(email, fixes[k][1], fixes[k][2])
                     ELSE email,
                     k + 1)

fix_common_email_issues(email) == apply_fixes(StrStrip(email), 1)

\* clean_emails_csv: the rows written back. A row whose fixed address is not
\* valid is dropped; the others keep their place and get the fixed address.
clean_emails_csv(df) ==
    LET valid(row) == is_valid_email(fix_common_email_issues(row.email))
        kept == SelectSeq(df, valid)
    IN  [i \in 1..Len(kept) |->
            [kept[i] EXCEPT !.email = fix_common_email_issues(kept[i].email)]]

(***************************************************************************)
(* fix_malformed_emails.py: fix_specific_malformed_emails.                 *)
(***************************************************************************)
specific_fixes == {
    << <<"4", "6", "0", "0", "1", "s", "a", "l", "e", "s", ".", "s", "u", "p", "p",
         "o", "r", "t", "@", "g", "i", "z", "a", "s", "y", "s", "t", "e", "m", "s",
         ".", "c", "o", "m", "f", "u", "l", "l">>,
       <<"4", "6", "0", "0", "1", "s", "a", "l", "e", "s", ".", "s", "u", "p", "p",
         "o", "r", "t", "@", "g", "i", "z", "a", "s", "y", "s", "t", "e", "m", "s",
         ".", "c", "o", "m">> >>,
    << <<"4", "6", "0", "0", "1", "i", "n", "f", "o", "@", "g", "i", "z", "a", "s",
         "y", "s", "t", "e", "m", "s", ".", "c", "o", "m", "g", "i", "z", "a">>,
       <<"4", "6", "0", "0", "1", "i", "n", "f", "o", "@", "g", "i", "z", "a", "s",
         "y", "s", "t", "e", "m", "s", ".", "c", "o", "m">> >>,
    << <<"u", "s", "s", "a", "l", "e", "s", ".", "s", "u", "p", "p", "o", "r", "t",
         "@", "g", "i", "z", "a", "s", "y", "s", "t", "e", "m", "s", ".", "c", "o",
         "m", "c", "a", "l", "l">>,
       <<"u", "s", "s", "a", "l", "e", "s", ".", "s", "u", "p", "p", "o", "r", "t",
         "@", "g", "i", "z", "a", "s", "y", "s", "t", "e", "m", "s", ".", "c", "o",
         "m">> >>,
    << <<"s", "u", "p", "p", "o", "r", "t", ".", "e", "g", "@", "f", "o", "o", "d",
         "i", "c", "s", ".", "c", "o", "m", "p">>,
       <<"s", "u", "p", "p", "o", "r", "t", ".", "e", "g", "@", "f", "o", "o", "d",
         "i", "c", "s", ".", "c", "o", "m">> >>,
    << <<"s", "u", "p", "p", "o", "r", "t", "@", "f", "o", "o", "d", "i", "c", "s",
         ".", "c", "o", "m", "p">>,
       <<"s", "u", "p", "p", "o", "r", "t", "@", "f", "o", "o", "d", "i", "c", "s",
         ".", "c", "o", "m">> >> }

corrupted_suffixes == {
    <<".", "c", "o", "m", "p">>,
    <<".", "c", "o", "m", "c", "a", "l", "l">>,
    <<".", "c", "o", "m", "f", "u", "l", "l">>,
    <<".", "c", "o", "m", "g", "i", "z", "a">> }

\* fix_specific_malformed_emails: the rows written back. An address of the table
\* is rewritten; any other address whose domain ends with a corrupted suffix has
\* its row dropped.
fix_specific_malformed_emails(df) ==
    LET in_table(email) == \E f \in specific_fixes : f[1] = email
        new_email(email) == (CHOOSE f \in specific_fixes : f[1] = email)[2]
        invalid(row) ==
            /\ ~in_table(row.email)
            /\ row.email # <<>>
            /\ StrContains(row.email, <<"@">>)
            /\ \E x \in corrupted_suffixes : StrEndsWith(SplitAt1(row.email), x)
        keep(row) == ~invalid(row)
        kept == SelectSeq(df, keep)
    IN  [i \in 1..Len(kept) |->
            IF in_table(kept[i].email)
            THEN [kept[i] EXCEPT !.email = new_email(kept[i].email)]
            ELSE kept[i]]

(***************************************************************************)
(* emails.csv as the cleanup tools find it. fix_malformed_emails.py:24     *)
(* names addresses that were found in it; the file holds each address once. *)
(***************************************************************************)
A_comp == <<"s", "u", "p", "p", "o", "r", "t", "@", "f", "o", "o", "d", "i", "c", "s",
            ".", "c", "o", "m", "p">>

A_com == <<"s", "u", "p", "p", "o", "r", "t", "@", "f", "o", "o", "d", "i", "c", "s",
           ".", "c", "o", "m">>

A_hr_comp == <<"h", "r", "@", "a", "c", "m", "e", ".", "c", "o", "m", "p">>

A_localhost == <<"i", "n", "f", "o", "@", "l", "o", "c", "a", "l", "h", "o", "s", "t">>

CleanupEmails == {A_ab, A_comp, A_com, A_hr_comp, A_localhost}

NoDuplicates(list) == \A i, j \in 1..Len(list) : list[i] = list[j] => i = j

InitialEmailFiles ==
    { [i \in 1..Len(f) |-> [email |-> f[i], company |-> "Co"]] :
        f \in {g \in {<<>>} \cup SeqsUpTo(CleanupEmails, MaxRows) : NoDuplicates(g)} }

(***************************************************************************)
(* Initial state: setup_csv_files has created both files with their header *)
(* rows and no data; the process is between jobs.                          *)
(***************************************************************************)
InitLedger ==
    /\ csv_file = <<>>
    /\ sent_file = <<>>
    /\ pc = "idle"
    /\ job_limit = 0
    /\ batch = <<>>
    /\ idx = 0
    /\ send_ok = FALSE
    /\ attempts = [a \in CandidateEmails |-> 0]
    /\ failed = {}
    /\ offered = [i \in 1..MaxRows |-> 0]

(***************************************************************************)
(* scrape_companies_job, one city: search_companies hands a list of        *)
(* companies to save_companies_to_csv. An exception while reading or       *)
(* writing the file is logged and swallowed (run_system.py:197).           *)
(***************************************************************************)
ScrapeCompanies(companies, io_ok) ==
    /\ pc = "idle"
    /\ Len(csv_file) + Len(companies) <= MaxRows
    /\ csv_file' = IF io_ok THEN csv_file \o new_data(csv_file, companies) ELSE csv_file
    /\ UNCHANGED <<sent_file, pc, job_limit, batch, idx, send_ok>>

(***************************************************************************)
(* send_emails_job: the call of get_unsent_emails. An exception while      *)
(* reading the files makes it return [] (run_system.py:323). An empty list *)
(* ends the job.                                                           *)
(***************************************************************************)
StartSendJob(limit, io_ok) ==
    /\ pc = "idle"
    /\ LET unsent_emails == IF io_ok THEN get_unsent_emails(csv_file, sent_file, limit)
                                      ELSE <<>>
       IN  /\ batch' = unsent_emails
           /\ pc' = IF unsent_emails = <<>> THEN "idle" ELSE "send"
           /\ idx' = IF unsent_emails = <<>> THEN 0 ELSE 1
           /\ job_limit' = IF unsent_emails = <<>> THEN 0 ELSE limit
    /\ UNCHANGED <<csv_file, sent_file, send_ok>>

\* History of StartSendJob: the positions the call returned.
StartSendJobHistory(limit, io_ok) ==
    LET got == IF io_ok THEN Range(unsent_positions(csv_file, sent_file, limit)) ELSE {}
    IN  /\ offered' = [i \in 1..MaxRows |-> IF i \in got THEN Bump(offered[i])
                                                           ELSE offered[i]]
        /\ UNCHANGED <<attempts, failed>>

\* send_emails_job: send_email(email, company_name) for the current element. It
\* returns True or False; every exception inside it is caught (run_system.py:289).
SendEmail(ok) ==
    /\ pc = "send"
    /\ send_ok' = ok
    /\ pc' = "mark"
    /\ UNCHANGED <<csv_file, sent_file, job_limit, batch, idx>>

\* History of SendEmail: one more attempt for the address, and whether it failed.
SendEmailHistory(ok) ==
    LET email == batch[idx].email
    IN  /\ attempts' = [attempts EXCEPT ![email] = Bump(@)]
        /\ failed' = IF ok THEN failed ELSE failed \cup {email}
        /\ UNCHANGED offered

\* send_emails_job: mark_email_as_sent(email, company_name, "sent" | "failed") and
\* the end of the loop body. An exception while reading or writing the outcome
\* file is logged and swallowed (run_system.py:308); the call returns None either way.
MarkEmail(io_ok) ==
    /\ pc = "mark"
    /\ LET company == batch[idx]
           status == IF send_ok THEN "sent" ELSE "failed"
       IN  sent_file' = IF io_ok
                        THEN mark_email_as_sent(sent_file, company.email,
                                                company.company_name, status)
                        ELSE sent_file
    /\ IF idx < Len(batch)
       THEN /\ idx' = idx + 1
            /\ pc' = "send"
            /\ UNCHANGED <<batch, job_limit>>
       ELSE /\ idx' = 0
            /\ pc' = "idle"
            /\ batch' = <<>>
            /\ job_limit' = 0
    /\ send_ok' = FALSE
    /\ UNCHANGED csv_file

\* The process dies inside send_emails_job and is started again: the files stay,
\* the job's local variables are gone.
Crash ==
    /\ pc # "idle"
    /\ pc' = "idle"
    /\ batch' = <<>>
    /\ idx' = 0
    /\ job_limit' = 0
    /\ send_ok' = FALSE
    /\ UNCHANGED <<csv_file, sent_file>>

(***************************************************************************)
(* The cleanup tools, one run each. An exception while reading or writing  *)
(* emails.csv is logged and swallowed; the tool then returns None          *)
(* (clean_emails.py:145, fix_malformed_emails.py:79). Otherwise it returns *)
(* its counts. The return value is kept in op.ret as a set: empty for      *)
(* None, else the one dictionary returned.                                 *)
(***************************************************************************)
CleanEmails(io_ok) ==
    /\ program = "cleanup"
    /\ LET cleaned == clean_emails_csv(emails_csv)
           fixed == {i \in 1..Len(emails_csv) :
                        /\ is_valid_email(fix_common_email_issues(emails_csv[i].email))
                        /\ fix_common_email_issues(emails_csv[i].email) # emails_csv[i].email}
       IN  IF io_ok
           THEN /\ emails_csv' = cleaned
                /\ op' = [name |-> "clean_emails_csv", arg |-> <<>>,
                          ret |-> {[original_count |-> Len(emails_csv),
                                    fixed_count |-> Cardinality(fixed),
                                    removed_count |-> Len(emails_csv) - Len(cleaned),
                                    final_count |-> Len(cleaned)]}]
           ELSE /\ emails_csv' = emails_csv
                /\ op' = [name |-> "clean_emails_csv", arg |-> <<>>, ret |-> {}]

FixSpecificEmails(io_ok) ==
    /\ program = "cleanup"
    /\ LET written == fix_specific_malformed_emails(emails_csv)
           fixed == {i \in 1..Len(emails_csv) :
                        \E f \in specific_fixes : f[1] = emails_csv[i].email}
       IN  IF io_ok
           THEN /\ emails_csv' = written
                /\ op' = [name |-> "fix_specific_malformed_emails", arg |-> <<>>,
                          ret |-> {[fixed_count |-> Cardinality(fixed),
                                    removed_count |-> Len(emails_csv) - Len(written),
                                    final_count |-> Len(written)]}]
           ELSE /\ emails_csv' = emails_csv
                /\ op' = [name |-> "fix_specific_malformed_emails", arg |-> <<>>,
                          ret |-> {}]

(***************************************************************************)
(* visited_links_manager.py: VisitedLinksManager                           *)
(*                                                                         *)
(* A dict is a function from its keys; a timestamp is the day it was       *)
(* taken, and BadTimestamp stands for a stored timestamp that              *)
(* datetime.fromisoformat cannot parse.                                    *)
(***************************************************************************)
BadTimestamp == -1

EmptyDict == <<>>

\* d.get(key, default)
DictGet(d, key, default) == IF key \in DOMAIN d THEN d[key] ELSE default

\* d[key] = value
DictSet(d, key, value) == [k \in DOMAIN d \cup {key} |-> IF k = key THEN value ELSE d[k]]

\* del d[key]
DictDel(d, key) == [k \in DOMAIN d \ {key} |-> d[k]]

\* d.update(other)
DictUpdate(d, other) ==
    [k \in DOMAIN d \cup DOMAIN other |-> IF k \in DOMAIN other THEN other[k] ELSE d[k]]

\* str.rstrip('/')
RECURSIVE StrRstripSlash(_)
StrRstripSlash(s) ==
    IF s # <<>> /\ s[Len(s)] = "/" THEN StrRstripSlash(SubSeq(s, 1, Len(s) - 1)) ELSE s

\* s.split('?')[0]
SplitQuestion0(s) ==
    IF \E i \in 1..Len(s) : s[i] = "?"
    THEN SubSeq(s, 1, (CHOOSE i \in 1..Len(s) : s[i] = "?" /\ \A j \in 1..(i - 1) : s[j] # "?") - 1)
    ELSE s

_normalize_url(url) ==
    IF url = <<>> THEN <<>>
    ELSE LET normalized == StrRstripSlash(StrStrip(StrLower(url)))
         IN  IF \E i \in 1..Len(normalized) : normalized[i] = "?"
             THEN SplitQuestion0(normalized)
             ELSE normalized

\* hashlib.md5(...).hexdigest(), taken as injective
md5(key_string) == <<"md5">> \o key_string

no_website == <<"n", "o", "_", "w", "e", "b", "s", "i", "t", "e">>

\* website is the empty text where the caller passes None: `if website` does not
\* tell them apart.
_create_company_key(company_name, website) ==
    LET name_clean == IF company_name # <<>> THEN StrStrip(StrLower(company_name)) ELSE <<>>
        website_clean == IF website # <<>> THEN _normalize_url(website) ELSE no_website
    IN  md5(name_clean \o <<"_">> \o website_clean)

\* A faulty _create_search_key that leaves the search type out of the key.
_create_search_key_no_type(search_query, search_type) ==
    md5(StrStrip(StrLower(search_query)))

_create_search_key(search_query, search_type) ==
    LET query_clean == StrStrip(StrLower(search_query))
    IN  md5(search_type \o <<"_">> \o query_clean)

_is_expired(timestamp, days, clock) ==
    IF days <= 0 THEN FALSE
    ELSE IF timestamp = BadTimestamp THEN TRUE
    ELSE timestamp < clock - days

\* _cleanup_expired_entries, one collection
cleanup_collection(d, days, clock) ==
    LET expired == {k \in DOMAIN d : _is_expired(DictGet(d[k], "timestamp", BadTimestamp), days, clock)}
    IN  [k \in DOMAIN d \ expired |-> d[k]]

_cleanup_expired_entries(stores, days, clock) ==
    IF days <= 0 THEN stores
    ELSE [links |-> cleanup_collection(stores.links, days, clock),
          companies |-> cleanup_collection(stores.companies, days, clock),
          searches |-> cleanup_collection(stores.searches, days, clock)]

\* The body the three is_*_visited methods share, from the dict lookup on: what
\* the call returns and the collection it leaves.
check_visited(d, key, days, clock) ==
    LET data == DictGet(d, key, EmptyDict)
    IN  IF data = EmptyDict THEN [ret |-> FALSE, store |-> d]
        ELSE IF _is_expired(DictGet(data, "timestamp", BadTimestamp), days, clock)
        THEN [ret |-> FALSE, store |-> DictDel(d, key)]
        ELSE [ret |-> TRUE, store |-> d]

is_link_visited(d, url, days, clock) ==
    LET normalized_url == _normalize_url(url)
    IN  IF normalized_url = <<>> THEN [ret |-> FALSE, store |-> d]
        ELSE check_visited(d, normalized_url, days, clock)

is_company_visited(d, company_name, website, days, clock) ==
    check_visited(d, _create_company_key(company_name, website), days, clock)

is_search_visited(d, search_query, search_type, days, clock) ==
    check_visited(d, _create_search_key(search_query, search_type), days, clock)

\* 'visit_count' of the visit_data the mark_*_visited methods build
next_visit_count(d, key) == DictGet(DictGet(d, key, EmptyDict), "visit_count", 0) + 1

\* `if metadata: visit_data.update(metadata)`, then the store
store_visit(d, key, visit_data, metadata) ==
    DictSet(d, key, IF metadata # EmptyDict THEN DictUpdate(visit_data, metadata) ELSE visit_data)

unknown == <<"u", "n", "k", "n", "o", "w", "n">>

\* A faulty mark_link_visited without the test of the key.
mark_link_visited_any_key(d, url, scraper_name, metadata, clock) ==
    LET normalized_url == _normalize_url(url)
        visit_data == [timestamp |-> clock,
                       scraper |-> scraper_name,
                       visit_count |-> next_visit_count(d, normalized_url)]
    IN  store_visit(d, normalized_url, visit_data, metadata)

mark_link_visited(d, url, scraper_name, metadata, clock) ==
    LET normalized_url == _normalize_url(url)
        visit_data == [timestamp |-> clock,
                       scraper |-> scraper_name,
                       visit_count |-> next_visit_count(d, normalized_url)]
    IN  IF normalized_url = <<>> THEN d
        ELSE store_visit(d, normalized_url, visit_data, metadata)

mark_company_visited(d, company_name, website, scraper_name, metadata, clock) ==
    LET company_key == _create_company_key(company_name, website)
        visit_data == [timestamp |-> clock,
                       scraper |-> scraper_name,
                       company_name |-> company_name,
                       website |-> website,
                       visit_count |-> next_visit_count(d, company_key)]
    IN  store_visit(d, company_key, visit_data, metadata)

mark_search_visited(d, search_query, search_type, scraper_name, metadata, clock) ==
    LET search_key == _create_search_key(search_query, search_type)
        visit_data == [timestamp |-> clock,
                       scraper |-> scraper_name,
                       search_query |-> search_query,
                       search_type |-> search_type,
                       visit_count |-> next_visit_count(d, search_key)]
    IN  store_visit(d, search_key, visit_data, metadata)

(***************************************************************************)
(* The callers' inputs.                                                    *)
(***************************************************************************)
LinkInputs == {
    <<"H", "T", "T", "P", ":", "/", "/", "A", ".", "c", "o", "m", "/">>,
    <<"h", "t", "t", "p", ":", "/", "/", "a", ".", "c", "o", "m", "?", "x", "=", "1">>,
    <<"/">>}

\* More raw links: a second spelling of the first link, a link of slashes
\* around a blank, a link of only a query string and the empty string.
LinkKeyInputs == LinkInputs \cup {
    <<" ", "h", "t", "t", "p", ":", "/", "/", "a", ".", "c", "o", "m">>,
    <<"/", " ", "/">>,
    <<"?", "x", "=", "1">>,
    <<>>}

CompanyInputs == {
    <<<<"A", "c", "m", "e">>, <<>>>>,
    <<<<"A", "C", "M", "E", " ">>, <<>>>>}

serpapi_search == <<"s", "e", "r", "p", "a", "p", "i", "_", "s", "e", "a", "r", "c", "h">>

SearchInputs == {<<<<"C", "a", "f", "e">>, serpapi_search>>}

\* None, the metadata of search_api_implementation.py:55, a metadata that
\* carries a 'timestamp' of its own, and one that carries a 'visit_count'.
MetadataInputs == {
    EmptyDict,
    [country |-> <<"s", "a">>],
    [timestamp |-> BadTimestamp],
    [visit_count |-> 0]}

EmptyStores == [links |-> EmptyDict, companies |-> EmptyDict, searches |-> EmptyDict]

NoOp == [name |-> "none", arg |-> <<>>, ret |-> <<>>]

\* A DynamicCompanyFinder that has visited nothing.
NoneVisited == [visited_links |-> {}, visited_companies |-> {}]

(***************************************************************************)
(* The backing files. A file is missing, or cannot be opened, or holds     *)
(* text that is not JSON, or holds JSON: a list, an object without the     *)
(* key of the collection, or an object with the key, whose value is a      *)
(* list, null or a mapping. A file that save_all_data wrote holds a        *)
(* mapping; marked_at is the history of its entries.                       *)
(***************************************************************************)
Categories == {"links", "companies", "searches"}

File(kind) == [kind |-> kind, data |-> EmptyDict, marked_at |-> EmptyDict]

Missing == File("missing")

NoFiles == [links |-> Missing, companies |-> Missing, searches |-> Missing]

\* The contents that no save_all_data wrote.
ForeignFiles ==
    {File(kind) : kind \in {"unreadable", "not_json", "list", "no_key",
                            "value_list", "value_null"}}

\* The value a loader returns: data.get(key, {}) of a JSON object, {} where the
\* file is missing or the try block raised.
_load_visited(file) ==
    CASE file.kind = "mapping" -> [shape |-> "dict", data |-> file.data]
      [] file.kind = "value_list" -> [shape |-> "list", data |-> EmptyDict]
      [] file.kind = "value_null" -> [shape |-> "None", data |-> EmptyDict]
      [] OTHER -> [shape |-> "dict", data |-> EmptyDict]

\* __init__: the three loads, the cleanup and the three len() of the log lines.
\* The cleanup calls .items() unless expire_days <= 0, len() fails on None. ret
\* tells whether the construction raised, and whether a collection of the
\* instance is not a mapping.
__init__(fs, days, clock) ==
    LET loaded == [c \in Categories |-> _load_visited(fs[c])]
        stores == [links |-> loaded["links"].data,
                   companies |-> loaded["companies"].data,
                   searches |-> loaded["searches"].data]
    IN  IF \/ days > 0 /\ \E c \in Categories : loaded[c].shape # "dict"
           \/ \E c \in Categories : loaded[c].shape = "None"
        THEN [ret |-> "raised", stores |-> EmptyStores]
        ELSE IF \E c \in Categories : loaded[c].shape # "dict"
        THEN [ret |-> "not_a_mapping", stores |-> EmptyStores]
        ELSE [ret |-> "ok", stores |-> _cleanup_expired_entries(stores, days, clock)]

Saved(d, marked) == [kind |-> "mapping", data |-> d, marked_at |-> marked]

\* The three files save_all_data leaves where every write succeeds.
save_all_data(stores, marked) ==
    [links |-> Saved(stores.links, marked.links),
     companies |-> Saved(stores.companies, marked.companies),
     searches |-> Saved(stores.searches, marked.searches)]

\* The three files save_all_data leaves where the write of one file raises: the
\* files before it are written, the files after it are not reached, and the
\* file itself is as it was (open raised) or truncated (json.dump raised).
save_all_data_failing(stores, marked, fs, failing, truncated) ==
    LET written == save_all_data(stores, marked)
        reached == CASE failing = "links" -> {}
                     [] failing = "companies" -> {"links"}
                     [] OTHER -> {"links", "companies"}
        left(c) == IF c \in reached THEN written[c]
                   ELSE IF c = failing /\ truncated THEN File("not_json")
                   ELSE fs[c]
    IN  [links |-> left("links"), companies |-> left("companies"),
         searches |-> left("searches")]

get_statistics(stores, days) ==
    [total_links |-> Cardinality(DOMAIN stores.links),
     total_companies |-> Cardinality(DOMAIN stores.companies),
     total_searches |-> Cardinality(DOMAIN stores.searches),
     expire_days |-> days]

\* A faulty clear_all_data that leaves the files.
clear_all_data_keep_files(stores, fs) ==
    [stores |-> EmptyStores, files |-> fs, removed |-> {}]

\* clear_all_data: the collections and the files it leaves, and the files it
\* removed.
clear_all_data(stores, fs) ==
    [stores |-> EmptyStores,
     files |-> NoFiles,
     removed |-> {c \in Categories : fs[c].kind # "missing"}]

\* The manager as constructed where no file exists: three empty collections,
\* on which the cleanup of __init__ has nothing to remove.
InitCacheIdle ==
    /\ now = 0
    /\ expire_days = 0
    /\ visited = EmptyStores
    /\ marked_at = EmptyStores
    /\ files = NoFiles
    /\ finder = NoneVisited
    /\ op = NoOp

InitOther ==
    /\ program = "run_system"
    /\ emails_csv = <<>>
    /\ InitCacheIdle

Init == InitLedger /\ InitOther

otherVars == <<program, emails_csv, now, expire_days, visited, marked_at, files, finder, op>>

(***************************************************************************)
(* The calls on the manager. A mark is a call that stores; the history     *)
(* keeps its day per key, and forgets a key with its entry.                *)
(***************************************************************************)
Restrict(f, d) == [k \in DOMAIN f \cap DOMAIN d |-> f[k]]

IsLinkVisited(url) ==
    LET r == is_link_visited(visited.links, url, expire_days, now)
    IN  /\ visited' = [visited EXCEPT !.links = r.store]
        /\ marked_at' = [marked_at EXCEPT !.links = Restrict(@, r.store)]
        /\ op' = [name |-> "is_link_visited", arg |-> url, ret |-> r.ret]
        /\ UNCHANGED <<now, expire_days>>

IsCompanyVisited(company_name, website) ==
    LET r == is_company_visited(visited.companies, company_name, website, expire_days, now)
    IN  /\ visited' = [visited EXCEPT !.companies = r.store]
        /\ marked_at' = [marked_at EXCEPT !.companies = Restrict(@, r.store)]
        /\ op' = [name |-> "is_company_visited", arg |-> <<company_name, website>>,
                  ret |-> r.ret]
        /\ UNCHANGED <<now, expire_days>>

IsSearchVisited(search_query, search_type) ==
    LET r == is_search_visited(visited.searches, search_query, search_type, expire_days, now)
    IN  /\ visited' = [visited EXCEPT !.searches = r.store]
        /\ marked_at' = [marked_at EXCEPT !.searches = Restrict(@, r.store)]
        /\ op' = [name |-> "is_search_visited", arg |-> <<search_query, search_type>>,
                  ret |-> r.ret]
        /\ UNCHANGED <<now, expire_days>>

MarkLinkVisited(url, metadata) ==
    LET d == mark_link_visited(visited.links, url, unknown, metadata, now)
    IN  /\ next_visit_count(visited.links, _normalize_url(url)) <= MaxVisits
        /\ visited' = [visited EXCEPT !.links = d]
        /\ marked_at' = [marked_at EXCEPT !.links = [k \in DOMAIN d |->
                            IF k = _normalize_url(url) THEN now ELSE @[k]]]
        /\ op' = [name |-> "mark_link_visited", arg |-> url, ret |-> <<>>]
        /\ UNCHANGED <<now, expire_days>>

MarkCompanyVisited(company_name, website, metadata) ==
    LET d == mark_company_visited(visited.companies, company_name, website, unknown,
                                  metadata, now)
        key == _create_company_key(company_name, website)
    IN  /\ next_visit_count(visited.companies, key) <= MaxVisits
        /\ visited' = [visited EXCEPT !.companies = d]
        /\ marked_at' = [marked_at EXCEPT !.companies = DictSet(@, key, now)]
        /\ op' = [name |-> "mark_company_visited", arg |-> <<company_name, website>>,
                  ret |-> <<>>]
        /\ UNCHANGED <<now, expire_days>>

MarkSearchVisited(search_query, search_type, metadata) ==
    LET d == mark_search_visited(visited.searches, search_query, search_type, unknown,
                                 metadata, now)
        key == _create_search_key(search_query, search_type)
    IN  /\ next_visit_count(visited.searches, key) <= MaxVisits
        /\ visited' = [visited EXCEPT !.searches = d]
        /\ marked_at' = [marked_at EXCEPT !.searches = DictSet(@, key, now)]
        /\ op' = [name |-> "mark_search_visited", arg |-> <<search_query, search_type>>,
                  ret |-> <<>>]
        /\ UNCHANGED <<now, expire_days>>

\* A process starts: a new instance is constructed from the files.
Restart ==
    LET r == __init__(files, expire_days, now)
    IN  /\ visited' = r.stores
        /\ marked_at' = [links |-> Restrict(files.links.marked_at, r.stores.links),
                         companies |-> Restrict(files.companies.marked_at,
                                                r.stores.companies),
                         searches |-> Restrict(files.searches.marked_at,
                                               r.stores.searches)]
        /\ op' = [name |-> "__init__", arg |-> <<>>, ret |-> r.ret]
        /\ UNCHANGED <<now, expire_days, files>>

SaveAllData ==
    /\ files' = save_all_data(visited, marked_at)
    /\ op' = [name |-> "save_all_data", arg |-> <<>>, ret |-> <<>>]
    /\ UNCHANGED <<now, expire_days, visited, marked_at>>

\* A write raises; the except clause logs it and the call returns None as it
\* does after three writes.
SaveAllDataFails(failing, truncated) ==
    /\ files' = save_all_data_failing(visited, marked_at, files, failing, truncated)
    /\ op' = [name |-> "save_all_data", arg |-> <<>>, ret |-> <<>>]
    /\ UNCHANGED <<now, expire_days, visited, marked_at>>

ClearAllData ==
    LET r == clear_all_data(visited, files)
    IN  /\ visited' = r.stores
        /\ marked_at' = EmptyStores
        /\ files' = r.files
        /\ op' = [name |-> "clear_all_data", arg |-> <<>>, ret |-> r.removed]
        /\ UNCHANGED <<now, expire_days>>

\* A day passes.
Tick ==
    /\ now < MaxTime
    /\ now' = now + 1
    /\ UNCHANGED <<expire_days, visited, marked_at, op>>


(***************************************************************************)
(* Spec: run_system.py with the history of its calls.                      *)
(***************************************************************************)
ScrapeStepH ==
    \E companies \in SeqsUpTo(CandidateCompanies, MaxRows), io_ok \in BOOLEAN :
        ScrapeCompanies(companies, io_ok) /\ UNCHANGED historyVars /\ UNCHANGED otherVars

StartSendJobStepH ==
    \E limit \in 0..MaxRows, io_ok \in BOOLEAN :
        StartSendJob(limit, io_ok) /\ StartSendJobHistory(limit, io_ok)
            /\ UNCHANGED otherVars

SendEmailStepH ==
    \E ok \in BOOLEAN : SendEmail(ok) /\ SendEmailHistory(ok) /\ UNCHANGED otherVars

MarkEmailStepH ==
    \E io_ok \in BOOLEAN : MarkEmail(io_ok) /\ UNCHANGED historyVars /\ UNCHANGED otherVars

CrashStepH == Crash /\ UNCHANGED historyVars /\ UNCHANGED otherVars

Next ==
    \/ ScrapeStepH
    \/ StartSendJobStepH
    \/ SendEmailStepH
    \/ MarkEmailStepH
    \/ CrashStepH

Spec == Init /\ [][Next]_vars

(***************************************************************************)
(* SpecLedger: the programs that keep the contact files, without the       *)
(* history. run_system.py works on companies_emails.csv and                *)
(* sent_emails.csv, the cleanup tools on emails.csv: they share no state,  *)
(* and a behaviour follows one of them.                                    *)
(***************************************************************************)
InitTools ==
    /\ InitLedger
    /\ InitCacheIdle
    /\ \/ program = "run_system" /\ emails_csv = <<>>
       \/ program = "cleanup" /\ emails_csv \in InitialEmailFiles

RunSystemFrame ==
    /\ program = "run_system"
    /\ UNCHANGED <<program, emails_csv, now, expire_days, visited, marked_at, files, finder, op>>
    /\ UNCHANGED historyVars

CleanupFrame ==
    /\ UNCHANGED <<program, now, expire_days, visited, marked_at, files, finder>>
    /\ UNCHANGED ledgerVars
    /\ UNCHANGED historyVars

ScrapeStep ==
    \E companies \in SeqsUpTo(CandidateCompanies, MaxRows), io_ok \in BOOLEAN :
        ScrapeCompanies(companies, io_ok) /\ RunSystemFrame

StartSendJobStep ==
    \E limit \in 0..MaxRows, io_ok \in BOOLEAN : StartSendJob(limit, io_ok) /\ RunSystemFrame

SendEmailStep == \E ok \in BOOLEAN : SendEmail(ok) /\ RunSystemFrame

MarkEmailStep == \E io_ok \in BOOLEAN : MarkEmail(io_ok) /\ RunSystemFrame

CrashStep == Crash /\ RunSystemFrame

CleanEmailsStep == \E io_ok \in BOOLEAN : CleanEmails(io_ok) /\ CleanupFrame

FixSpecificEmailsStep == \E io_ok \in BOOLEAN : FixSpecificEmails(io_ok) /\ CleanupFrame

NextTools ==
    \/ ScrapeStep
    \/ StartSendJobStep
    \/ SendEmailStep
    \/ MarkEmailStep
    \/ CrashStep
    \/ CleanEmailsStep
    \/ FixSpecificEmailsStep

SpecLedger == InitTools /\ [][NextTools]_vars

(***************************************************************************)
(* SpecCache: one VisitedLinksManager, its callers and the clock. The      *)
(* three collections share no entry, and every method but the cleanup      *)
(* works on one of them. A behaviour follows one client of the manager: a  *)
(* client of one category, which passes every input and metadata, or a     *)
(* client of all three, which passes no metadata.                          *)
(***************************************************************************)
CacheClients == {"links", "companies", "searches", "all"}

MetadataOf(client) == IF client = "all" THEN {EmptyDict} ELSE MetadataInputs

InitCache ==
    /\ InitLedger
    /\ program \in CacheClients
    /\ emails_csv = <<>>
    /\ now = 0
    /\ expire_days \in 0..MaxExpireDays
    /\ visited = _cleanup_expired_entries(EmptyStores, expire_days, now)
    /\ marked_at = EmptyStores
    /\ files = NoFiles
    /\ finder = NoneVisited
    /\ op = NoOp

ManagerFrame ==
    /\ UNCHANGED <<program, emails_csv, finder>>
    /\ UNCHANGED ledgerVars
    /\ UNCHANGED historyVars

CacheFrame == ManagerFrame /\ UNCHANGED files

IsLinkVisitedStep ==
    /\ program \in {"links", "all"}
    /\ \E url \in LinkInputs : IsLinkVisited(url) /\ CacheFrame

IsCompanyVisitedStep ==
    /\ program \in {"companies", "all"}
    /\ \E c \in CompanyInputs : IsCompanyVisited(c[1], c[2]) /\ CacheFrame

IsSearchVisitedStep ==
    /\ program \in {"searches", "all"}
    /\ \E q \in SearchInputs : IsSearchVisited(q[1], q[2]) /\ CacheFrame

MarkLinkVisitedStep ==
    /\ program \in {"links", "all"}
    /\ \E url \in LinkInputs, metadata \in MetadataOf(program) :
          MarkLinkVisited(url, metadata) /\ CacheFrame

MarkCompanyVisitedStep ==
    /\ program \in {"companies", "all"}
    /\ \E c \in CompanyInputs, metadata \in MetadataOf(program) :
          MarkCompanyVisited(c[1], c[2], metadata) /\ CacheFrame

MarkSearchVisitedStep ==
    /\ program \in {"searches", "all"}
    /\ \E q \in SearchInputs, metadata \in MetadataOf(program) :
          MarkSearchVisited(q[1], q[2], metadata) /\ CacheFrame

TickStep == program \in CacheClients /\ Tick /\ CacheFrame

NextCache ==
    \/ IsLinkVisitedStep
    \/ IsCompanyVisitedStep
    \/ IsSearchVisitedStep
    \/ MarkLinkVisitedStep
    \/ MarkCompanyVisitedStep
    \/ MarkSearchVisitedStep
    \/ TickStep

SpecCache == InitCache /\ [][NextCache]_vars

(***************************************************************************)
(* SpecLinkKeys: one VisitedLinksManager and a caller that passes raw      *)
(* links of every spelling to the two link methods.                        *)
(***************************************************************************)
InitLinkKeys ==
    /\ InitLedger
    /\ program = "link_keys"
    /\ emails_csv = <<>>
    /\ now = 0
    /\ expire_days \in 0..MaxExpireDays
    /\ visited = _cleanup_expired_entries(EmptyStores, expire_days, now)
    /\ marked_at = EmptyStores
    /\ files = NoFiles
    /\ finder = NoneVisited
    /\ op = NoOp

IsLinkVisitedKeyStep == \E url \in LinkKeyInputs : IsLinkVisited(url) /\ CacheFrame

MarkLinkVisitedKeyStep ==
    \E url \in LinkKeyInputs, metadata \in MetadataInputs :
        MarkLinkVisited(url, metadata) /\ CacheFrame

TickKeyStep == Tick /\ CacheFrame

NextLinkKeys ==
    \/ IsLinkVisitedKeyStep
    \/ MarkLinkVisitedKeyStep
    \/ TickKeyStep

SpecLinkKeys == InitLinkKeys /\ [][NextLinkKeys]_vars

(***************************************************************************)
(* SpecPersist: the files, a process that constructs the manager from      *)
(* them, marks what it has not stored, saves, clears, and ends; and the    *)
(* next process on the same files. At most one file holds what no          *)
(* save_all_data wrote.                                                    *)
(***************************************************************************)
PersistLink == <<"H", "T", "T", "P", ":", "/", "/", "A", ".", "c", "o", "m", "/">>

PersistCompany == <<<<"A", "c", "m", "e">>, <<>>>>

PersistSearch == <<<<"C", "a", "f", "e">>, serpapi_search>>

PersistMetadata == {EmptyDict, [timestamp |-> BadTimestamp]}

InitialFiles ==
    {NoFiles} \cup
    {[NoFiles EXCEPT ![c] = f] : c \in Categories, f \in ForeignFiles}

InitPersist ==
    /\ InitLedger
    /\ program = "persist"
    /\ emails_csv = <<>>
    /\ now = 0
    /\ expire_days \in 0..MaxExpireDays
    /\ visited = EmptyStores
    /\ marked_at = EmptyStores
    /\ files \in InitialFiles
    /\ finder = NoneVisited
    /\ op = NoOp

\* An instance exists: __init__ has run, and the last one has not raised nor
\* left a collection that is no mapping.
Constructed == op.name # "none" /\ ~(op.name = "__init__" /\ op.ret # "ok")

RestartStep == Restart /\ ManagerFrame

MarkLinkPersistStep ==
    /\ Constructed
    /\ _normalize_url(PersistLink) \notin DOMAIN visited.links
    /\ \E metadata \in PersistMetadata : MarkLinkVisited(PersistLink, metadata)
    /\ CacheFrame

MarkCompanyPersistStep ==
    /\ Constructed
    /\ _create_company_key(PersistCompany[1], PersistCompany[2])
           \notin DOMAIN visited.companies
    /\ MarkCompanyVisited(PersistCompany[1], PersistCompany[2], EmptyDict)
    /\ CacheFrame

MarkSearchPersistStep ==
    /\ Constructed
    /\ _create_search_key(PersistSearch[1], PersistSearch[2])
           \notin DOMAIN visited.searches
    /\ MarkSearchVisited(PersistSearch[1], PersistSearch[2], EmptyDict)
    /\ CacheFrame

SaveAllDataStep == Constructed /\ SaveAllData /\ ManagerFrame

SaveAllDataFailsStep ==
    /\ Constructed
    /\ \E failing \in Categories, truncated \in BOOLEAN :
           SaveAllDataFails(failing, truncated)
    /\ ManagerFrame

ClearAllDataStep == Constructed /\ ClearAllData /\ ManagerFrame

TickPersistStep == Tick /\ CacheFrame

NextPersist ==
    \/ RestartStep
    \/ MarkLinkPersistStep
    \/ MarkCompanyPersistStep
    \/ MarkSearchPersistStep
    \/ SaveAllDataStep
    \/ SaveAllDataFailsStep
    \/ ClearAllDataStep
    \/ TickPersistStep

SpecPersist == InitPersist /\ [][NextPersist]_vars

(***************************************************************************)
(* SpecImport: the import of manage_visited_data.py. A backup is what      *)
(* VisitedLinksManager.export_data wrote (three mappings of entries) or    *)
(* what export_data of manage_visited_data.py wrote (two lists). The       *)
(* import merges it into the two sets of a DynamicCompanyFinder, whose     *)
(* class is not among the sources: that they are sets is taken from        *)
(* export_data of manage_visited_data.py, which reads the files of the     *)
(* finder as lists and makes sets of them.                                 *)
(***************************************************************************)
\* VisitedLinksManager.export_data: the backup it writes.
export_data(stores, days) ==
    [by |-> "VisitedLinksManager",
     visited_links |-> stores.links,
     visited_companies |-> stores.companies,
     visited_searches |-> stores.searches,
     statistics |-> get_statistics(stores, days)]

\* export_data of manage_visited_data.py: the backup it writes.
tool_export_data(f) ==
    [by |-> "manage_visited_data",
     visited_links |-> f.visited_links,
     visited_companies |-> f.visited_companies,
     total_links |-> Cardinality(f.visited_links),
     total_companies |-> Cardinality(f.visited_companies)]

\* What iterating a value of a backup gives: the keys of a mapping, the
\* elements of a list.
Iterate(backup_data, field) ==
    IF backup_data.by = "VisitedLinksManager"
    THEN DOMAIN backup_data[field]
    ELSE backup_data[field]

\* import_data from the answer to its question on: set.update on the links and
\* on the companies of the finder.
import_data(f, backup_data, confirmation) ==
    IF confirmation # "yes" THEN f
    ELSE [visited_links |-> f.visited_links \cup Iterate(backup_data, "visited_links"),
          visited_companies |->
              f.visited_companies \cup Iterate(backup_data, "visited_companies")]

\* The collections a manager may hold when it exports: each empty or with one
\* entry.
ExportedStores ==
    {[links |-> l, companies |-> c, searches |-> q] :
        l \in {EmptyDict, mark_link_visited(EmptyDict, PersistLink, unknown, EmptyDict, 0)},
        c \in {EmptyDict, mark_company_visited(EmptyDict, PersistCompany[1],
                                               PersistCompany[2], unknown, EmptyDict, 0)},
        q \in {EmptyDict, mark_search_visited(EmptyDict, PersistSearch[1],
                                              PersistSearch[2], unknown, EmptyDict, 0)}}

FinderLink == <<"h", "t", "t", "p", ":", "/", "/", "b", ".", "c", "o", "m">>

FinderCompany == <<"a", "c", "m", "e", "_">> \o no_website

Finders ==
    {[visited_links |-> l, visited_companies |-> c] :
        l \in SUBSET {FinderLink}, c \in SUBSET {FinderCompany}}

ManagerBackups == {export_data(stores, 0) : stores \in ExportedStores}

ToolBackups == {tool_export_data(f) : f \in Finders}

InitImport ==
    /\ InitLedger
    /\ program = "import"
    /\ emails_csv = <<>>
    /\ now = 0
    /\ expire_days = 0
    /\ visited = EmptyStores
    /\ marked_at = EmptyStores
    /\ files = NoFiles
    /\ finder \in Finders
    /\ op = NoOp

ImportData(backup_data, confirmation) ==
    /\ finder' = import_data(finder, backup_data, confirmation)
    /\ op' = [name |-> "import_data", arg |-> backup_data, ret |-> confirmation]
    /\ UNCHANGED <<program, emails_csv, now, expire_days, visited, marked_at, files>>
    /\ UNCHANGED ledgerVars
    /\ UNCHANGED historyVars

ImportDataStep ==
    \E confirmation \in {"yes", "no"} :
        \/ \E backup_data \in ManagerBackups : ImportData(backup_data, confirmation)
        \/ \E backup_data \in ToolBackups : ImportData(backup_data, confirmation)

NextImport == ImportDataStep

SpecImport == InitImport /\ [][NextImport]_vars

(***************************************************************************)
(* SpecKeys: the three key derivations of the manager, each applied to     *)
(* every text of a bounded set. op keeps the call and the key it returned. *)
(***************************************************************************)
KeyChars == {"a", "A", "/", "?", " "}

UrlInputs == {<<>>} \cup SeqsUpTo(KeyChars, MaxKeyLen)

\* Company names, among them one that contains the '_' that joins name and
\* website.
KeyNames == {<<"a">>, <<"A", " ">>, <<"a", "_", "b">>}

\* Websites: none, and some that are given.
KeyWebsites == {<<>>, <<"b">>, <<"B", "/">>, no_website, <<"b", "_">> \o no_website}

KeySearchTypes == {<<"a">>, <<"a", "_", "b">>}

KeyQueries == {<<"c">>, <<"C", " ">>, <<"b", "_", "c">>}

\* A caller holds the argument of one call.
Argument(kind, arg) == [name |-> kind, arg |-> arg, ret |-> <<>>]

InitKeys ==
    /\ InitLedger
    /\ program = "keys"
    /\ emails_csv = <<>>
    /\ now = 0
    /\ expire_days = 0
    /\ visited = EmptyStores
    /\ marked_at = EmptyStores
    /\ files = NoFiles
    /\ finder = NoneVisited
    /\ \/ \E url \in UrlInputs : op = Argument("url", url)
       \/ \E company_name \in KeyNames, website \in KeyWebsites :
              op = Argument("company", <<company_name, website>>)
       \/ \E search_query \in KeyQueries, search_type \in KeySearchTypes :
              op = Argument("search", <<search_query, search_type>>)

KeysFrame == CacheFrame /\ UNCHANGED <<now, expire_days, visited, marked_at>>

NormalizeUrl ==
    /\ op.name = "url"
    /\ op' = [name |-> "_normalize_url", arg |-> op.arg, ret |-> _normalize_url(op.arg)]
    /\ KeysFrame

CreateCompanyKey ==
    /\ op.name = "company"
    /\ op' = [name |-> "_create_company_key", arg |-> op.arg,
              ret |-> _create_company_key(op.arg[1], op.arg[2])]
    /\ KeysFrame

CreateSearchKey ==
    /\ op.name = "search"
    /\ op' = [name |-> "_create_search_key", arg |-> op.arg,
              ret |-> _create_search_key(op.arg[1], op.arg[2])]
    /\ KeysFrame

NextKeys ==
    \/ NormalizeUrl
    \/ CreateCompanyKey
    \/ CreateSearchKey

SpecKeys == InitKeys /\ [][NextKeys]_vars

(***************************************************************************)
(* SpecValidate: the two validators and the fix of clean_emails.py, each   *)
(* applied to every address made of a local part and a domain below.       *)
(***************************************************************************)
ValidatorLocals == {
    <<"i", "n", "f", "o">>,
    <<"N", "o", "R", "e", "p", "l", "y">>,
    <<"n", "o", "-", "r", "e", "p", "l", "y">>,
    <<"d", "o", "n", "o", "t", "r", "e", "p", "l", "y">>,
    <<"a", "d", "m", "i", "n">>,
    <<"t", "e", "s", "t">>,
    <<"a", ".", "c", "o", "m", "p">>}

ValidatorDomains == {
    <<"c", "o", "m", "p", "a", "n", "y", ".", "s", "a">>,
    <<"c", "o", "m", "p", "a", "n", "y", ".", "c", "o", "m">>,
    <<"b", ".", "c", "o", "m", "p">>,
    <<"b", ".", "c", "o", "m", "c", "a", "l", "l">>,
    <<"b", ".", "c", "o", "m", "f", "u", "l", "l">>,
    <<"b", ".", "c", "o", "m", "g", "i", "z", "a">>,
    <<"b", ".", "c", "o", "m", ".", "s", "a", ".", "s", "a">>,
    <<"b", ".", "c", "o", "m", ".", "a", "e", ".", "a", "e">>,
    <<"e", "x", "a", "m", "p", "l", "e", ".", "c", "o", "m">>,
    <<"l", "o", "c", "a", "l", "h", "o", "s", "t">>,
    <<"b", ".", "c">>,
    <<"x", ".", "c", "o", "m", "p", ".", "b", ".", "c", "o", "m", "p">>}

ValidatorEmails == {l \o <<"@">> \o d : l \in ValidatorLocals, d \in ValidatorDomains}

InitValidate ==
    /\ InitLedger
    /\ program = "validate"
    /\ emails_csv = <<>>
    /\ now = 0
    /\ expire_days = 0
    /\ visited = EmptyStores
    /\ marked_at = EmptyStores
    /\ files = NoFiles
    /\ finder = NoneVisited
    /\ \E email \in ValidatorEmails : op = Argument("email", email)

ValidateEmail ==
    /\ op.name = "email"
    /\ op' = [name |-> "validate_email", arg |-> op.arg, ret |-> validate_email(op.arg)]
    /\ KeysFrame

IsValidEmail ==
    /\ op.name = "email"
    /\ op' = [name |-> "is_valid_email", arg |-> op.arg, ret |-> is_valid_email(op.arg)]
    /\ KeysFrame

FixCommonEmailIssues ==
    /\ op.name = "email"
    /\ op' = [name |-> "fix_common_email_issues", arg |-> op.arg,
              ret |-> fix_common_email_issues(op.arg)]
    /\ KeysFrame

NextValidate ==
    \/ ValidateEmail
    \/ IsValidEmail
    \/ FixCommonEmailIssues

SpecValidate == InitValidate /\ [][NextValidate]_vars

(***************************************************************************)
(* SpecSearch: the search discovery step of search_api_implementation.py,  *)
(* on the global manager. A response is what requests.get and              *)
(* raise_for_status leave for one query: an exception, or the links of the *)
(* results.                                                                *)
(***************************************************************************)
bing_search == <<"b", "i", "n", "g", "_", "s", "e", "a", "r", "c", "h">>

SerpAPISearcher ==
    [scraper_name |-> <<"S", "e", "r", "p", "A", "P", "I", "S", "e", "a", "r", "c", "h", "e", "r">>,
     search_type |-> serpapi_search,
     search_queries |-> <<<<"s", "o", "f", "t", "w", "a", "r", "e", " ", "d", "e", "v", "e", "l", "o", "p", "m", "e", "n", "t", " ", "c", "o", "m", "p", "a", "n", "y", " ">>,
                         <<"w", "e", "b", " ", "d", "e", "v", "e", "l", "o", "p", "m", "e", "n", "t", " ", "c", "o", "m", "p", "a", "n", "y", " ">>,
                         <<"m", "o", "b", "i", "l", "e", " ", "a", "p", "p", " ", "d", "e", "v", "e", "l", "o", "p", "m", "e", "n", "t", " ">>,
                         <<"I", "T", " ", "s", "e", "r", "v", "i", "c", "e", "s", " ">>,
                         <<"s", "o", "f", "t", "w", "a", "r", "e", " ", "h", "o", "u", "s", "e", " ">>>>]

BingSearcher ==
    [scraper_name |-> <<"B", "i", "n", "g", "S", "e", "a", "r", "c", "h", "e", "r">>,
     search_type |-> bing_search,
     search_queries |-> <<<<"s", "o", "f", "t", "w", "a", "r", "e", " ", "d", "e", "v", "e", "l", "o", "p", "m", "e", "n", "t", " ", "c", "o", "m", "p", "a", "n", "y", " ">>,
                         <<"w", "e", "b", " ", "d", "e", "v", "e", "l", "o", "p", "m", "e", "n", "t", " ">>,
                         <<"m", "o", "b", "i", "l", "e", " ", "a", "p", "p", " ", "d", "e", "v", "e", "l", "o", "p", "m", "e", "n", "t", " ">>>>]

\* f"... {country}" of each query
search_queries(searcher, country) ==
    [i \in 1..Len(searcher.search_queries) |-> searcher.search_queries[i] \o country]

fallback_companies(country) ==
    CASE country = <<"S", "a", "u", "d", "i", " ", "A", "r", "a", "b", "i", "a">> ->
           <<<<"h", "t", "t", "p", "s", ":", "/", "/", "w", "w", "w", ".", "s", "t", "c", ".",
               "c", "o", "m", ".", "s", "a">>,
             <<"h", "t", "t", "p", "s", ":", "/", "/", "w", "w", "w", ".", "e", "l", "m", ".",
               "s", "a">>,
             <<"h", "t", "t", "p", "s", ":", "/", "/", "w", "w", "w", ".", "n", "c", "b", ".",
               "c", "o", "m", ".", "s", "a">>,
             <<"h", "t", "t", "p", "s", ":", "/", "/", "w", "w", "w", ".", "s", "a", "u", "d",
               "i", "t", "e", "c", "h", ".", "c", "o", "m", ".", "s", "a">>,
             <<"h", "t", "t", "p", "s", ":", "/", "/", "w", "w", "w", ".", "i", "t", "i", "d",
               "a", ".", "g", "o", "v", ".", "s", "a">>>>
      [] country = <<"U", "n", "i", "t", "e", "d", " ", "A", "r", "a", "b", " ", "E", "m", "i", "r", "a", "t", "e", "s">> ->
           <<<<"h", "t", "t", "p", "s", ":", "/", "/", "w", "w", "w", ".", "e", "t", "i", "s",
               "a", "l", "a", "t", ".", "a", "e">>,
             <<"h", "t", "t", "p", "s", ":", "/", "/", "w", "w", "w", ".", "d", "u", ".", "a", "e">>,
             <<"h", "t", "t", "p", "s", ":", "/", "/", "w", "w", "w", ".", "a", "d", "n", "o",
               "c", ".", "a", "e">>,
             <<"h", "t", "t", "p", "s", ":", "/", "/", "w", "w", "w", ".", "e", "m", "i", "r",
               "a", "t", "e", "s", ".", "c", "o", "m">>,
             <<"h", "t", "t", "p", "s", ":", "/", "/", "w", "w", "w", ".", "d", "u", "b", "a",
               "i", "t", "e", "c", "h", ".", "a", "e">>>>
      [] country = <<"K", "u", "w", "a", "i", "t">> ->
           <<<<"h", "t", "t", "p", "s", ":", "/", "/", "w", "w", "w", ".", "z", "a", "i", "n",
               ".", "c", "o", "m">>,
             <<"h", "t", "t", "p", "s", ":", "/", "/", "w", "w", "w", ".", "o", "o", "r", "e",
               "d", "o", "o", ".", "c", "o", "m", ".", "k", "w">>,
             <<"h", "t", "t", "p", "s", ":", "/", "/", "w", "w", "w", ".", "v", "i", "v", "a",
               ".", "c", "o", "m", ".", "k", "w">>>>
      [] country = <<"J", "o", "r", "d", "a", "n">> ->
           <<<<"h", "t", "t", "p", "s", ":", "/", "/", "w", "w", "w", ".", "o", "r", "a", "n",
               "g", "e", ".", "j", "o">>,
             <<"h", "t", "t", "p", "s", ":", "/", "/", "w", "w", "w", ".", "z", "a", "i", "n",
               ".", "j", "o">>,
             <<"h", "t", "t", "p", "s", ":", "/", "/", "w", "w", "w", ".", "u", "m", "n", "i",
               "a", "h", ".", "c", "o", "m">>>>
      [] country = <<"O", "m", "a", "n">> ->
           <<<<"h", "t", "t", "p", "s", ":", "/", "/", "w", "w", "w", ".", "o", "m", "a", "n",
               "t", "e", "l", ".", "o", "m">>,
             <<"h", "t", "t", "p", "s", ":", "/", "/", "w", "w", "w", ".", "o", "o", "r", "e",
               "d", "o", "o", ".", "o", "m">>>>
      [] OTHER -> <<>>

\* list[:n]
Take(list, n) == SubSeq(list, 1, Min(n, Len(list)))

_fallback_search(country, max_results) == Take(fallback_companies(country), max_results)

\* The loop over the results of one response: a link the cache reports visited
\* is skipped, the lookup evicts as it goes.
RECURSIVE filter_visited(_, _, _, _, _)
filter_visited(links, results, all_urls, days, clock) ==
    IF results = <<>> THEN [links |-> links, all_urls |-> all_urls]
    ELSE LET r == is_link_visited(links, Head(results), days, clock)
         IN  filter_visited(r.store, Tail(results),
                            IF r.ret THEN all_urls ELSE Append(all_urls, Head(results)),
                            days, clock)

\* The loop over the queries, from query i on. marked collects the keys the
\* loop has marked, skipped the queries it has not requested.
RECURSIVE search_loop(_, _, _, _, _, _, _, _)
search_loop(searcher, country, queries, responses, i, acc, days, clock) ==
    IF i > Len(queries) THEN acc
    ELSE LET query == queries[i]
             seen == is_search_visited(acc.searches, query, searcher.search_type, days, clock)
             marked == mark_search_visited(seen.store, query, searcher.search_type,
                                           searcher.scraper_name, [country |-> country],
                                           clock)
             found == filter_visited(acc.links, responses[i].organic_results,
                                     acc.all_urls, days, clock)
         IN  search_loop(searcher, country, queries, responses, i + 1,
                 IF seen.ret
                 THEN [acc EXCEPT !.searches = seen.store, !.skipped = @ \cup {i}]
                 ELSE IF responses[i].status # "ok"
                 THEN [acc EXCEPT !.searches = marked,
                                  !.marked = @ \cup {_create_search_key(query,
                                                         searcher.search_type)}]
                 ELSE [acc EXCEPT !.searches = marked,
                                  !.marked = @ \cup {_create_search_key(query,
                                                         searcher.search_type)},
                                  !.links = found.links,
                                  !.all_urls = found.all_urls],
                 days, clock)

\* The lists list(set(all_urls)) may be: the order of a set is not defined.
ListsOfSet(S) ==
    {list \in [1..Cardinality(S) -> S] : Range(list) = S}

\* search_companies with an API key: the collections it leaves, the keys it
\* marked, the queries it skipped and the lists it may return.
search_companies(searcher, stores, country, max_results, responses, days, clock) ==
    LET done == search_loop(searcher, country, search_queries(searcher, country),
                            responses, 1,
                            [searches |-> stores.searches, links |-> stores.links,
                             all_urls |-> <<>>, marked |-> {}, skipped |-> {}],
                            days, clock)
    IN  [stores |-> [stores EXCEPT !.searches = done.searches, !.links = done.links],
         marked |-> done.marked,
         skipped |-> done.skipped,
         returns |-> {Take(list, max_results) : list \in ListsOfSet(Range(done.all_urls))}]

\* search_companies without an API key: the fallback list of SerpAPISearcher,
\* the empty list of BingSearcher.
search_companies_no_key(searcher, country, max_results) ==
    IF searcher = SerpAPISearcher THEN _fallback_search(country, max_results) ELSE <<>>

Oman == <<"O", "m", "a", "n">>

OmanTel == <<"h", "t", "t", "p", "s", ":", "/", "/", "w", "w", "w", ".", "o", "m", "a", "n", "t", "e", "l", ".", "o", "m">>

Ooredoo == <<"h", "t", "t", "p", "s", ":", "/", "/", "w", "w", "w", ".", "o", "o", "r", "e", "d", "o", "o", ".", "o", "m">>

Searchers == {SerpAPISearcher, BingSearcher}

HTTPError == [status |-> "HTTPError", organic_results |-> <<>>]

Found == [status |-> "ok", organic_results |-> <<Ooredoo, OmanTel>>]

\* The responses of one call: the request of no query or of the first query
\* fails, the others find the two links.
ResponseInputs(searcher) ==
    LET n == Len(searcher.search_queries)
    IN  {[i \in 1..n |-> IF i \in failing THEN HTTPError ELSE Found] :
            failing \in {{}, {1}}}

MaxResultsInputs == {1, 20}

InitSearch ==
    /\ InitLedger
    /\ program = "search"
    /\ emails_csv = <<>>
    /\ now = 0
    /\ expire_days = MaxExpireDays
    /\ visited = EmptyStores
    /\ marked_at = EmptyStores
    /\ files = NoFiles
    /\ finder = NoneVisited
    /\ op = NoOp

\* io_ok: the writes of save_all_data succeed; otherwise the first open raises,
\* no file is written, and the call goes on.
SearchCompanies(searcher, country, max_results, responses, io_ok) ==
    \E r \in {search_companies(searcher, visited, country, max_results, responses,
                                expire_days, now)} :
        /\ visited' = r.stores
        /\ marked_at' = [marked_at EXCEPT
               !.links = Restrict(@, r.stores.links),
               !.searches = [k \in DOMAIN r.stores.searches |->
                                IF k \in r.marked THEN now ELSE @[k]]]
        /\ files' = IF io_ok THEN save_all_data(visited', marked_at')
                     ELSE save_all_data_failing(visited', marked_at', files, "links", FALSE)
        /\ \E ret \in r.returns :
               op' = [name |-> "search_companies",
                      arg |-> [searcher |-> searcher.scraper_name, api_key |-> TRUE,
                               country |-> country, max_results |-> max_results,
                               responses |-> responses, skipped |-> r.skipped],
                      ret |-> ret]
        /\ UNCHANGED <<now, expire_days>>

SearchCompaniesNoKey(searcher, country, max_results) ==
    /\ op' = [name |-> "search_companies",
              arg |-> [searcher |-> searcher.scraper_name, api_key |-> FALSE,
                       country |-> country, max_results |-> max_results,
                       responses |-> <<>>, skipped |-> {}],
              ret |-> search_companies_no_key(searcher, country, max_results)]
    /\ UNCHANGED <<now, expire_days, visited, marked_at, files>>

SearchCompaniesStep ==
    /\ \E searcher \in Searchers, max_results \in MaxResultsInputs, io_ok \in BOOLEAN :
           \E responses \in ResponseInputs(searcher) :
               SearchCompanies(searcher, Oman, max_results, responses, io_ok)
    /\ ManagerFrame

SearchCompaniesNoKeyStep ==
    /\ \E searcher \in Searchers, max_results \in MaxResultsInputs :
           SearchCompaniesNoKey(searcher, Oman, max_results)
    /\ CacheFrame

\* A scraper marks a link of the results visited.
MarkLinkSearchStep ==
    /\ \E url \in {OmanTel, Ooredoo} :
           /\ _normalize_url(url) \notin DOMAIN visited.links
           /\ MarkLinkVisited(url, EmptyDict)
    /\ CacheFrame

\* A later run: a new process constructs the manager from the files.
RestartSearchStep == Restart /\ ManagerFrame

TickSearchStep == Tick /\ CacheFrame

NextSearch ==
    \/ SearchCompaniesStep
    \/ SearchCompaniesNoKeyStep
    \/ MarkLinkSearchStep
    \/ RestartSearchStep
    \/ TickSearchStep

SpecSearch == InitSearch /\ [][NextSearch]_vars

(***************************************************************************)
(* SpecCategories: the calls on the three collections side by side. One    *)
(* client uses a link, a company and a query; the other uses a link and    *)
(* one query under the search types of the two searchers.                  *)
(***************************************************************************)
CategoryClients == {"categories", "search_types"}

SearchTypes == {serpapi_search, bing_search}

SearchTypesOf(client) == IF client = "categories" THEN {serpapi_search} ELSE SearchTypes

InitCategories ==
    /\ InitLedger
    /\ program \in CategoryClients
    /\ emails_csv = <<>>
    /\ now = 0
    /\ expire_days \in 0..MaxExpireDays
    /\ visited = _cleanup_expired_entries(EmptyStores, expire_days, now)
    /\ marked_at = EmptyStores
    /\ files = NoFiles
    /\ finder = NoneVisited
    /\ op = NoOp

IsLinkVisitedCategoryStep == IsLinkVisited(PersistLink) /\ CacheFrame

IsCompanyVisitedCategoryStep ==
    program = "categories" /\ IsCompanyVisited(PersistCompany[1], PersistCompany[2]) /\ CacheFrame

IsSearchVisitedCategoryStep ==
    \E search_type \in SearchTypesOf(program) :
        IsSearchVisited(PersistSearch[1], search_type) /\ CacheFrame

MarkLinkVisitedCategoryStep == MarkLinkVisited(PersistLink, EmptyDict) /\ CacheFrame

MarkCompanyVisitedCategoryStep ==
    /\ program = "categories"
    /\ MarkCompanyVisited(PersistCompany[1], PersistCompany[2], EmptyDict)
    /\ CacheFrame

MarkSearchVisitedCategoryStep ==
    \E search_type \in SearchTypesOf(program) :
        MarkSearchVisited(PersistSearch[1], search_type, EmptyDict) /\ CacheFrame

TickCategoryStep == Tick /\ CacheFrame

NextCategories ==
    \/ IsLinkVisitedCategoryStep
    \/ IsCompanyVisitedCategoryStep
    \/ IsSearchVisitedCategoryStep
    \/ MarkLinkVisitedCategoryStep
    \/ MarkCompanyVisitedCategoryStep
    \/ MarkSearchVisitedCategoryStep
    \/ TickCategoryStep

SpecCategories == InitCategories /\ [][NextCategories]_vars

(***************************************************************************)
(* Properties of the ledger.                                               *)
(***************************************************************************)
\* The step of send_emails_job in which get_unsent_emails returned a non-empty
\* list: the list is batch', the limit is job_limit'.
BatchReturned == pc = "idle" /\ pc' = "send"

HasOutcome(sent_df, email) == ListContains(EmailsOf(sent_df), email)

HasSentOutcome(sent_df, email) ==
    \E i \in 1..Len(sent_df) : sent_df[i].email = email /\ sent_df[i].status = "sent"

OutcomesOf(sent_df, email) ==
    LET is_for(r) == r.email = email IN SelectSeq(sent_df, is_for)

IsPrefix(s, t) == Len(s) <= Len(t) /\ SubSeq(t, 1, Len(s)) = s

\* C1: every address is attempted at most once, whatever the jobs, crashes and
\* swallowed failures: the count of send_email calls per address never exceeds 1.
C1_AtMostOnce == \A a \in CandidateEmails : attempts[a] <= 1

\* C2: no two records of a contact file have the same address.
C2_AddressUnique ==
    /\ NoDuplicates(EmailsOf(csv_file))
    /\ NoDuplicates(EmailsOf(emails_csv))

\* C3: every record stored in the contact file has an address validate_email
\* accepts.
C3_OnlyValidStored == \A i \in 1..Len(csv_file) : validate_email(csv_file[i].email)

\* C4: no record is returned by two calls of the pending-batch operation (there is
\* no retry operation that could come between them).
C4_ClaimExclusive == \A i \in 1..MaxRows : offered[i] <= 1

\* The list b holds at most n rows, taken from rows at increasing positions, none
\* with a recorded outcome, and no row without an outcome was passed over.
C5_FirstPending(b, n, rows, sent_df) ==
    /\ Len(b) <= n
    /\ \E pos \in [1..Len(b) -> 1..Len(rows)] :
          /\ \A k \in 1..Len(b) : rows[pos[k]] = b[k]
          /\ \A k \in 1..Len(b) : ~HasOutcome(sent_df, rows[pos[k]].email)
          /\ \A k \in 1..(Len(b) - 1) : pos[k] < pos[k + 1]
          /\ \A i \in 1..Len(rows) :
                (~HasOutcome(sent_df, rows[i].email) /\ \A k \in 1..Len(b) : pos[k] # i)
                    => \A k \in 1..Len(b) : pos[k] < i

\* C5: a batch returned for limit N has at most N records, each a row without a
\* recorded outcome, in file order, and every pending row that is not returned
\* comes later in the file than every returned row.
C5_PendingBatch ==
    [][BatchReturned => C5_FirstPending(batch', job_limit', csv_file, sent_file)]_vars

\* C5 witness: a batch of one was returned for limit 1 while the first row of the
\* file already had an outcome and two rows were pending.
C5_Witness ==
    /\ pc = "send" /\ idx = 1 /\ job_limit = 1
    /\ Len(csv_file) = 3
    /\ HasOutcome(sent_file, csv_file[1].email)
    /\ ~HasOutcome(sent_file, csv_file[2].email)
    /\ ~HasOutcome(sent_file, csv_file[3].email)
    /\ batch = <<csv_file[2]>>

\* C6: recording an outcome for an address that already has one leaves the outcome
\* file unchanged, so an address never has more than one recorded outcome.
C6_SecondOutcomeRejected ==
    [][(pc = "mark" /\ HasOutcome(sent_file, batch[idx].email)) => sent_file' = sent_file]_vars

\* C7: an address whose send attempt failed is never returned by a later
\* pending-batch call (there is no retry operation).
C7_FailedNotOfferedAgain ==
    [][BatchReturned => \A k \in 1..Len(batch') : batch'[k].email \notin failed]_vars

\* C8: once a "sent" outcome is recorded for an address, no later pending-batch
\* call returns the address and its recorded outcomes never change.
C8_SentIsTerminal ==
    [][\A a \in CandidateEmails :
          HasSentOutcome(sent_file, a) =>
              /\ OutcomesOf(sent_file', a) = OutcomesOf(sent_file, a)
              /\ BatchReturned => \A k \in 1..Len(batch') : batch'[k].email # a]_vars

C9_Kept(before, after) ==
    \E K \in SUBSET (1..Len(before)) :
        /\ \A i \in 1..Len(before) : is_valid_email(before[i].email) => i \in K
        /\ Len(after) = Cardinality(K)
        /\ \A i \in K :
              LET k == Cardinality({j \in K : j <= i})
              IN  /\ after[k].company = before[i].company
                  /\ is_valid_email(before[i].email) => after[k] = before[i]

LookupCalled(name) == op'.name = name /\ now' = now

\* An entry is stored under the key and expire_days is 0 or the entry was marked
\* at most expire_days days ago.
C10_Live(category, key) ==
    /\ key \in DOMAIN visited[category]
    /\ expire_days = 0 \/ now - marked_at[category][key] <= expire_days

\* What a lookup of the key returns and removes.
C10_Lookup(category, key) ==
    /\ op'.ret = C10_Live(category, key)
    /\ (key \in DOMAIN visited[category] /\ ~C10_Live(category, key)) =>
          /\ key \notin DOMAIN visited'[category]
          /\ Cardinality(DOMAIN visited'[category]) = Cardinality(DOMAIN visited[category]) - 1
    /\ expire_days = 0 => visited' = visited

\* C10: in each category a lookup returns True exactly when an entry is stored
\* under the normalized key and expire_days is 0 or the entry was marked at most
\* expire_days days ago; a stored entry that is older is removed by the lookup,
\* which returns False; with expire_days = 0 a lookup removes nothing.
C10_VisitedIffLive ==
    [][/\ LookupCalled("is_link_visited") => C10_Lookup("links", _normalize_url(op'.arg))
       /\ LookupCalled("is_company_visited") =>
              C10_Lookup("companies", _create_company_key(op'.arg[1], op'.arg[2]))
       /\ LookupCalled("is_search_visited") =>
              C10_Lookup("searches", _create_search_key(op'.arg[1], op'.arg[2]))]_vars

\* The step is a call of the marking method `name`.
MarkCalled(name) == op'.name = name /\ now' = now

\* What a mark of the key does according to C11: a new key gets an entry with
\* visit_count 1, a stored key keeps the number of keys, gets its visit_count
\* raised by one and its timestamp set to the day of the call; a lookup of the
\* key then returns True.
C11_Mark(category, key) ==
    LET before == visited[category]
        after == visited'[category]
    IN  /\ key \in DOMAIN after
        /\ IF key \in DOMAIN before
           THEN /\ Cardinality(DOMAIN after) = Cardinality(DOMAIN before)
                /\ after[key].visit_count = before[key].visit_count + 1
           ELSE /\ Cardinality(DOMAIN after) = Cardinality(DOMAIN before) + 1
                /\ after[key].visit_count = 1
        /\ after[key].timestamp = now
        /\ check_visited(after, key, expire_days, now).ret

\* C11: a first mark of an identifier inserts one entry with visit_count 1, a
\* second mark of it leaves the number of keys unchanged, raises visit_count to 2
\* and refreshes the timestamp, and a lookup is True after either call (links
\* with an empty key aside, which are never stored).
C11_MarkIdempotentOnKeys ==
    [][/\ (MarkCalled("mark_link_visited") /\ _normalize_url(op'.arg) # <<>>) =>
              C11_Mark("links", _normalize_url(op'.arg))
       /\ MarkCalled("mark_company_visited") =>
              C11_Mark("companies", _create_company_key(op'.arg[1], op'.arg[2]))
       /\ MarkCalled("mark_search_visited") =>
              C11_Mark("searches", _create_search_key(op'.arg[1], op'.arg[2]))]_vars

\* C12: every stored entry has a visit_count of at least 1 and a timestamp equal
\* to the day of its last mark, whatever metadata the marks were given.
C12_CountAndTimestampKept ==
    \A category \in Categories : \A key \in DOMAIN visited[category] :
        /\ visited[category][key].visit_count >= 1
        /\ visited[category][key].timestamp = marked_at[category][key]

\* The stored entry of the key is older than expire_days, and not yet removed.
C13_Expired(category, key) ==
    /\ key \in DOMAIN visited[category]
    /\ expire_days > 0
    /\ now - marked_at[category][key] > expire_days

\* C13: a mark of a key whose stored entry is expired and not yet removed gives a
\* new entry, with visit_count 1.
C13_ExpiredCountNotCarried ==
    [][/\ (MarkCalled("mark_link_visited") /\ C13_Expired("links", _normalize_url(op'.arg))) =>
              visited'.links[_normalize_url(op'.arg)].visit_count = 1
       /\ (MarkCalled("mark_company_visited")
              /\ C13_Expired("companies", _create_company_key(op'.arg[1], op'.arg[2]))) =>
              visited'.companies[_create_company_key(op'.arg[1], op'.arg[2])].visit_count = 1
       /\ (MarkCalled("mark_search_visited")
              /\ C13_Expired("searches", _create_search_key(op'.arg[1], op'.arg[2]))) =>
              visited'.searches[_create_search_key(op'.arg[1], op'.arg[2])].visit_count = 1]_vars

C14_EmptyKey(url) == _normalize_url(url) = <<>>

C15_Spelling(url) ==
    LET t == StrStrip(StrLower(url))
    IN  IF StrEndsWith(t, <<"/">>) THEN SubSeq(t, 1, Len(t) - 1) ELSE t

C15_SameKey ==
    \A a, b \in LinkKeyInputs :
        C15_Spelling(a) = C15_Spelling(b) => _normalize_url(a) = _normalize_url(b)

\* C15: two raw links that differ only in letter case, leading and trailing
\* whitespace and one trailing path separator normalize to the same key, so
\* after a mark of one a lookup of the other returns True.
C15_SpellingsShareVisit ==
    [][MarkCalled("mark_link_visited") =>
          \A b \in LinkKeyInputs :
              C15_Spelling(b) = C15_Spelling(op'.arg) =>
                  /\ _normalize_url(b) = _normalize_url(op'.arg)
                  /\ is_link_visited(visited'.links, b, expire_days, now).ret]_vars

(***************************************************************************)
(* Properties of the key derivations.                                      *)
(***************************************************************************)
\* C16: for a link u without '?' and a query string q, the key of u + '?' + q is
\* the key of u, also when u ends with a path separator.
C16_QueryStripped ==
    (op.name = "_normalize_url" /\ StrContains(op.arg, <<"?">>)) =>
        op.ret = _normalize_url(SplitQuestion0(op.arg))

C17_SameWebsite(w1, w2) ==
    /\ (w1 = <<>>) = (w2 = <<>>)
    /\ _normalize_url(w1) = _normalize_url(w2)

\* C17: two (name, website) pairs get the same company key only if their
\* lower-cased, trimmed names are equal and their normalized websites are equal,
\* no website being different from every website; two (type, query) pairs get
\* the same search key only if the types and the normalized queries are equal.
C17_NoDelimiterCollision ==
    /\ op.name = "_create_company_key" =>
           \A n \in KeyNames, w \in KeyWebsites :
               _create_company_key(n, w) = op.ret =>
                   /\ StrStrip(StrLower(n)) = StrStrip(StrLower(op.arg[1]))
                   /\ C17_SameWebsite(w, op.arg[2])
    /\ op.name = "_create_search_key" =>
           \A q \in KeyQueries, t \in KeySearchTypes :
               _create_search_key(q, t) = op.ret =>
                   /\ t = op.arg[2]
                   /\ StrStrip(StrLower(q)) = StrStrip(StrLower(op.arg[1]))

\* C29: the key of a key is the key itself, so the lookup of a stored key finds
\* the entry stored under it.
C29_NormalizeIdempotent ==
    op.name = "_normalize_url" =>
        /\ _normalize_url(op.ret) = op.ret
        /\ mark_link_visited(EmptyDict, op.arg, unknown, EmptyDict, now) # EmptyDict =>
               is_link_visited(mark_link_visited(EmptyDict, op.arg, unknown, EmptyDict, now),
                               op.ret, expire_days, now).ret

(***************************************************************************)
(* Properties of the backing files.                                        *)
(***************************************************************************)
\* An entry of a file is older than expire_days, by the day of its last mark.
C18_Older(category, key) ==
    expire_days > 0 /\ now - files[category].marked_at[key] > expire_days

\* C18: the cleanup that __init__ runs after the loads removes from each of the
\* three collections every entry older than expire_days and leaves every other
\* entry as it was loaded, so that no collection of the new instance holds an
\* expired entry.
C18_SweepRemovesOlderOnly ==
    [][(op'.name = "__init__" /\ op'.ret = "ok") =>
          \A category \in Categories :
              /\ DOMAIN visited'[category] \subseteq DOMAIN files[category].data
              /\ \A key \in DOMAIN files[category].data :
                     IF C18_Older(category, key)
                     THEN key \notin DOMAIN visited'[category]
                     ELSE /\ key \in DOMAIN visited'[category]
                          /\ visited'[category][key] = files[category].data[key]]_vars

C20_LoadFailOpen ==
    op.name = "__init__" =>
        /\ op.ret = "ok"
        /\ \A category \in Categories :
               files[category].kind # "mapping" => visited[category] = EmptyDict

\* C21: a save_all_data that has not written the three collections tells its
\* caller: it returns something else than after three writes, or raises.
C21_FlushErrorSurfaced ==
    [][(op'.name = "save_all_data" /\ files' # save_all_data(visited, marked_at)) =>
          op'.ret # <<>>]_vars

\* The entries of a collection that are not older than expire_days, by the day
\* of their last mark.
C22_NotExpired(d, marked) ==
    [k \in {k \in DOMAIN d : ~(expire_days > 0 /\ now - marked[k] > expire_days)} |-> d[k]]

\* C22: an instance constructed right after a save_all_data that wrote the
\* three files holds, in each collection, exactly the entries that the saving
\* instance held and that are not expired; an instance constructed from three
\* saved files holds no key that the files do not hold.
C22_FlushLoadRoundTrip ==
    [][(op'.name = "__init__" /\ \A c \in Categories : files[c].kind = "mapping") =>
          /\ op'.ret = "ok"
          /\ \A c \in Categories : DOMAIN visited'[c] \subseteq DOMAIN files[c].data
          /\ (op.name = "save_all_data" /\ files = save_all_data(visited, marked_at)) =>
                 \A c \in Categories :
                     visited'[c] = C22_NotExpired(visited[c], marked_at[c])]_vars

(***************************************************************************)
(* Properties of the import.                                               *)
(***************************************************************************)
\* The keys the finder holds in a category; it has no collection of searches.
C23_Held(f, category) ==
    CASE category = "links" -> f.visited_links
      [] category = "companies" -> f.visited_companies
      [] OTHER -> {}

\* The keys a backup holds in a category.
C23_Bundled(backup_data, category) ==
    CASE category = "links" -> Iterate(backup_data, "visited_links")
      [] category = "companies" -> Iterate(backup_data, "visited_companies")
      [] OTHER -> IF backup_data.by = "VisitedLinksManager"
                  THEN DOMAIN backup_data.visited_searches
                  ELSE {}

\* C23: an import is a union-merge in each of the three categories of the
\* backup: it holds afterwards what was held before and what the backup holds,
\* and a second import of the same backup changes nothing.
C23_ImportUnionMerge ==
    [][(op'.name = "import_data" /\ op'.ret = "yes") =>
          /\ \A category \in Categories :
                 C23_Held(finder', category) =
                     C23_Held(finder, category) \cup C23_Bundled(op'.arg, category)
          /\ import_data(finder', op'.arg, "yes") = finder']_vars

(***************************************************************************)
(* Properties of the validators.                                           *)
(***************************************************************************)
C24_Denylist == {
    <<"n", "o", "r", "e", "p", "l", "y">>,
    <<"n", "o", "-", "r", "e", "p", "l", "y">>,
    <<"d", "o", "n", "o", "t", "r", "e", "p", "l", "y">>,
    <<"a", "d", "m", "i", "n", "@">>,
    <<"t", "e", "s", "t">>,
    <<"e", "x", "a", "m", "p", "l", "e">>,
    <<"l", "o", "c", "a", "l", "h", "o", "s", "t">>}

C24_Validated == op.name \in {"validate_email", "is_valid_email"}

\* C24: an address that contains, in any letter case, one of noreply, no-reply,
\* donotreply, admin@, test, example, localhost is rejected.
C24_DenylistRejected ==
    (C24_Validated /\ \E p \in C24_Denylist : StrContains(StrLower(op.arg), p)) =>
        op.ret = FALSE

\* The text after the last '@'.
C25_Domain(email) ==
    LET last == CHOOSE i \in 1..Len(email) :
                    email[i] = "@" /\ \A j \in (i + 1)..Len(email) : email[j] # "@"
    IN  SubSeq(email, last + 1, Len(email))

C25_CorruptedSuffixes == {
    <<".", "c", "o", "m", "p">>,
    <<".", "c", "o", "m", "c", "a", "l", "l">>,
    <<".", "c", "o", "m", "f", "u", "l", "l">>,
    <<".", "c", "o", "m", "g", "i", "z", "a">>,
    <<".", "c", "o", "m", ".", "s", "a", ".", "s", "a">>,
    <<".", "c", "o", "m", ".", "a", "e", ".", "a", "e">>}

C25_InfoCompanySa == <<"i", "n", "f", "o", "@", "c", "o", "m", "p", "a", "n", "y", ".", "s", "a">>

\* C25: an address whose domain is shorter than 4 characters or ends with one
\* of .comp, .comcall, .comfull, .comgiza, .com.sa.sa, .com.ae.ae is rejected,
\* and info@company.sa is accepted.
C25_CorruptedDomainRejected ==
    C24_Validated =>
        /\ (\/ Len(C25_Domain(op.arg)) < 4
            \/ \E x \in C25_CorruptedSuffixes : StrEndsWith(C25_Domain(op.arg), x)) =>
               op.ret = FALSE
        /\ op.arg = C25_InfoCompanySa => op.ret = TRUE

\* C26: the fix leaves an address as it is or rewrites the corrupted suffix at
\* its end to the corrected one: what stands before that suffix is unchanged.
C26_OnlySuffixRewritten ==
    op.name = "fix_common_email_issues" =>
        \/ op.ret = StrStrip(op.arg)
        \/ \E k \in 1..Len(fixes) :
               /\ StrEndsWith(StrStrip(op.arg), fixes[k][1])
               /\ op.ret = SubSeq(StrStrip(op.arg), 1,
                                  Len(StrStrip(op.arg)) - Len(fixes[k][1])) \o fixes[k][2]

(***************************************************************************)
(* Properties of the search discovery step.                                *)
(***************************************************************************)
C27_Searcher(scraper_name) == CHOOSE searcher \in Searchers : searcher.scraper_name = scraper_name

\* A step of search_companies: the only other step that leaves its record in op
\* is the passing of a day.
SearchCalled == op'.name = "search_companies" /\ now' = now

\* C27: when search_companies returns, a query whose request failed is not
\* marked visited: the lookup of the query with the same search type finds
\* nothing.
C27_FailedQueryNotMarked ==
    [][(SearchCalled /\ op'.arg.api_key) =>
          LET searcher == C27_Searcher(op'.arg.searcher)
              queries == search_queries(searcher, op'.arg.country)
          IN  \A i \in 1..Len(queries) :
                  (i \notin op'.arg.skipped /\ op'.arg.responses[i].status # "ok") =>
                      ~is_search_visited(visited'.searches, queries[i],
                                         searcher.search_type, expire_days, now).ret]_vars

\* C28: the list search_companies returns holds no link that the cache reports
\* visited at the time of the call, holds no link twice and has at most
\* max_results elements.
C28_NoVisitedLinkReturned ==
    [][SearchCalled =>
          /\ \A i \in 1..Len(op'.ret) :
                 ~is_link_visited(visited.links, op'.ret[i], expire_days, now).ret
          /\ \A i, j \in 1..Len(op'.ret) : op'.ret[i] = op'.ret[j] => i = j
          /\ Len(op'.ret) <= op'.arg.max_results]_vars

(***************************************************************************)
(* Properties of the three collections side by side.                       *)
(***************************************************************************)
\* The collection a call works on.
C30_CategoryOf(name) ==
    CASE name \in {"is_link_visited", "mark_link_visited"} -> "links"
      [] name \in {"is_company_visited", "mark_company_visited"} -> "companies"
      [] name \in {"is_search_visited", "mark_search_visited"} -> "searches"

C30_Called ==
    /\ now' = now
    /\ op'.name \in {"is_link_visited", "mark_link_visited", "is_company_visited",
                     "mark_company_visited", "is_search_visited", "mark_search_visited"}

\* C30: a lookup or a mark on one collection, the eviction of the lookup
\* included, leaves the other two collections as they were, and a mark of a
\* query under one search type does not make the lookup of the query under
\* another search type return True.
C30_CategoriesIndependent ==
    [][C30_Called =>
          /\ \A category \in Categories \ {C30_CategoryOf(op'.name)} :
                 visited'[category] = visited[category]
          /\ op'.name = "mark_search_visited" =>
                 \A search_type \in SearchTypes \ {op'.arg[2]} :
                     is_search_visited(visited'.searches, op'.arg[1], search_type,
                                       expire_days, now).ret
                         => is_search_visited(visited.searches, op'.arg[1], search_type,
                                              expire_days, now).ret]_vars

\* Reached: the link is stored, and the query has just been marked under
\* serpapi_search and is not visited under bing_search.
C30_Witness ==
    /\ op.name = "mark_search_visited"
    /\ op.arg[2] = serpapi_search
    /\ visited.links # EmptyDict
    /\ is_search_visited(visited.searches, op.arg[1], serpapi_search, expire_days, now).ret
    /\ ~is_search_visited(visited.searches, op.arg[1], bing_search, expire_days, now).ret

====
